---- MODULE Spec2Model ----
(***************************************************************************)
(* Model of wifi_capture.cpp: the control flow of main() from the parsing  *)
(* of the command line to process exit, the SIGINT/SIGTERM handler, and    *)
(* the sidecar writer.  Each action is one statement (or one loop          *)
(* iteration body) of main(); the outcomes of the external library and of  *)
(* the C/C++ runtime are drawn nondeterministically.                       *)
(***************************************************************************)
EXTENDS Integers, Sequences, FiniteSets, TLC

VARIABLES
    pc,          \* position of main()
    g_stop,      \* static std::atomic<bool> g_stop
    wifiCh,      \* int wifiCh (the value the command line resolves to)
    seconds,     \* double seconds, in clock ticks
    fmt,         \* std::string fmt
    mtu,         \* dev->getStreamMTU(...)
    freq,        \* const auto freq (kHz); 0 until computed
    dev,         \* the device handle held by the unique_ptr
    stream,      \* the receive stream rxStream
    corrFailed,  \* corrections whose call threw and was swallowed, noted until the loop
    calls,       \* the library / file calls main() has made, in order
    elapsed,     \* Clock::now() - t0, in ticks
    totalSamps,  \* size_t totalSamps
    readLog,     \* return values of the readStream calls made so far
    ret,         \* int ret of the last readStream
    wrote,       \* size_t wrote of the last fwrite
    loopExit,    \* which statement left the while loop
    fState,      \* the binary file FILE* f: none / open / closed
    fElems,      \* whole elements in the binary file (tagged by read ordinal)
    fTail,       \* bytes of a partial trailing element in the binary file
    fBuf,        \* whole elements fwrite accepted that are not yet in the file
    sidecar,     \* invocations and result of write_sidecar_json
    stderr,      \* kinds of diagnostics printed to std::cerr
    exitCode     \* process exit status

vars == <<pc, g_stop, wifiCh, seconds, fmt, mtu, freq, dev, stream, corrFailed,
          calls, elapsed, totalSamps, readLog, ret, wrote, loopExit,
          fState, fElems, fTail, fBuf, sidecar, stderr, exitCode>>

----------------------------------------------------------------------------
(* Bounds *)
MaxSecs == 1
MaxReads == 2
MaxMTU == 2
ChanHi == 15

(* SoapySDR read-status codes used by the loop *)
SOAPY_SDR_TIMEOUT == -1
SOAPY_SDR_STREAM_ERROR == -2
SOAPY_SDR_OVERFLOW == -4

SOAPY_SDR_CF32 == "CF32"
SOAPY_SDR_CS16 == "CS16"

Formats == {SOAPY_SDR_CF32, SOAPY_SDR_CS16}

(* size_t elemSize = (fmt == SOAPY_SDR_CF32 ? sizeof(float)*2 : sizeof(int16_t)*2) *)
elemSize(f) == IF f = SOAPY_SDR_CF32 THEN 8 ELSE 4

(* static double wifi2g_ch_to_hz(int ch).  Frequencies are held in kHz    *)
(* (2.4e9 Hz does not fit the checker's 32-bit integers); ChanThrows is    *)
(* the case that ends in throw std::runtime_error.                         *)
ChanNeverThrows(ch) == FALSE

ChanThrows(ch) == ~(ch >= 1 /\ ch <= 13) /\ ch # 14

wifi2g_ch_to_hz_FromChannelZero(ch) ==
    IF ch >= 1 /\ ch <= 13 THEN (2412 + 5 * ch) * 1000
    ELSE IF ch = 14 THEN 2484 * 1000
    ELSE 0

wifi2g_ch_to_hz(ch) ==
    IF ch >= 1 /\ ch <= 13 THEN (2412 + 5 * (ch - 1)) * 1000
    ELSE IF ch = 14 THEN 2484 * 1000
    ELSE 0

RECURSIVE Repeat(_, _)
Repeat(x, n) == IF n = 0 THEN <<>> ELSE <<x>> \o Repeat(x, n - 1)

(* Bytes of a partial element a failed write can leave in the file *)
TailBytes(f) == 0..(elemSize(f) - 1)

(* std::FILE buffering.  fwrite hands elements to the stdio buffer and     *)
(* returns how many it accepted; the file itself always holds an initial   *)
(* part of the bytes accepted so far.  FlushPoints is where that part can  *)
(* end after an attempt to write buffered data: n more whole elements of   *)
(* buf and t bytes of the next one, never before the present end (tail     *)
(* bytes already there), and past the last element of buf only when a      *)
(* partly accepted element follows it (more).                              *)
FlushPoints(buf, tail, more, f) ==
    {p \in (0..Len(buf)) \X TailBytes(f) :
        /\ (p[1] = 0 => p[2] >= tail)
        /\ (p[1] = Len(buf) /\ p[2] > 0 => (more /\ (Len(buf) = 0 => tail <= p[2])))}

(* Without a failing write the buffer is emptied in whole elements (its    *)
(* size is a multiple of both element sizes).                              *)
CleanFlushPoints(buf) == {<<n, 0>> : n \in 0..Len(buf)}

Flushed(buf, n) == SubSeq(buf, 1, n)

Pending(buf, n) == SubSeq(buf, n + 1, Len(buf))

(* Values readStream can return with a buffer of m samples *)
RetCodes(m) == {SOAPY_SDR_TIMEOUT, SOAPY_SDR_STREAM_ERROR, SOAPY_SDR_OVERFLOW} \cup (0..m)

NoSidecar == [calls |-> 0, nsamps |-> 0, file |-> "absent", samples |-> 0, center_hz |-> 0]

----------------------------------------------------------------------------
Init ==
    /\ pc = "parse"
    /\ g_stop = FALSE
    /\ wifiCh \in 14..ChanHi
    /\ seconds \in 0..MaxSecs
    /\ fmt \in Formats
    /\ mtu \in 1..MaxMTU
    /\ freq = 0
    /\ dev = "none"
    /\ stream = "none"
    /\ corrFailed = {}
    /\ calls = <<>>
    /\ elapsed = 0
    /\ totalSamps = 0
    /\ readLog = <<>>
    /\ ret = 0
    /\ wrote = 0
    /\ loopExit = "none"
    /\ fState = "none"
    /\ fElems = <<>>
    /\ fTail = 0
    /\ fBuf = <<>>
    /\ sidecar = NoSidecar
    /\ stderr = {}
    /\ exitCode = "none"

(* A handler that flips the flag instead of setting it. *)
sigint_handler_Toggles ==
    /\ pc # "done"
    /\ g_stop' = ~g_stop
    /\ UNCHANGED <<pc, wifiCh, seconds, fmt, mtu, freq, dev, stream, corrFailed,
                   calls, elapsed, totalSamps, readLog, ret, wrote, loopExit,
                   fState, fElems, fTail, fBuf, sidecar, stderr, exitCode>>

(* void sigint_handler(int){ g_stop.store(true); } *)
sigint_handler ==
    /\ pc # "done"
    /\ g_stop' = TRUE
    /\ UNCHANGED <<pc, wifiCh, seconds, fmt, mtu, freq, dev, stream, corrFailed,
                   calls, elapsed, totalSamps, readLog, ret, wrote, loopExit,
                   fState, fElems, fTail, fBuf, sidecar, stderr, exitCode>>

(* The steady clock advances while the loop runs.  Only the comparison     *)
(* elapsed >= seconds is observed, so the clock is followed up to seconds. *)
Tick ==
    /\ pc \in {"loopTop", "read"}
    /\ elapsed < seconds
    /\ elapsed' = elapsed + 1
    /\ UNCHANGED <<pc, g_stop, wifiCh, seconds, fmt, mtu, freq, dev, stream,
                   corrFailed, calls, totalSamps, readLog, ret, wrote, loopExit,
                   fState, fElems, fTail, fBuf, sidecar, stderr, exitCode>>

(* return <code> from main(): the unique_ptr destructor deletes a device   *)
(* it still owns.                                                          *)
DevAfterReturn(d) == IF d = "made" THEN "deleted" ELSE d

CallsAfterReturn(c, d) == IF d = "made" THEN Append(c, "delete") ELSE c

(* An exception nobody catches ends in std::terminate; whether the stack   *)
(* is unwound first (running the unique_ptr destructor) is up to the       *)
(* implementation.                                                         *)
Uncaught(call) ==
    /\ \E unwind \in BOOLEAN :
         /\ dev' = IF unwind THEN DevAfterReturn(dev) ELSE dev
         /\ calls' = IF unwind THEN CallsAfterReturn(Append(calls, call), dev)
                               ELSE Append(calls, call)
    /\ exitCode' = "abort"
    /\ pc' = "done"

(* for (int i=1;i<argc;i++){ ... }: the command line is well formed (the  *)
(* parameters take the values Init drew), or a flag lacks its value        *)
(* (std::exit(2)), or --help is met (usage on std::cout, return 0), or     *)
(* std::stoi / std::stod throws on a value and nothing catches it.         *)
ParseArgs ==
    /\ pc = "parse"
    /\ \E argv \in {"ok", "missing", "help", "badnumber"} :
         IF argv = "ok"
         THEN /\ pc' = "enumerate"
              /\ UNCHANGED <<stderr, exitCode>>
         ELSE IF argv = "missing"
         THEN /\ stderr' = stderr \cup {"MissingValue"}
              /\ exitCode' = "2"
              /\ pc' = "done"
         ELSE IF argv = "help"
         THEN /\ exitCode' = "0"
              /\ pc' = "done"
              /\ UNCHANGED stderr
         ELSE /\ exitCode' = "abort"
              /\ pc' = "done"
              /\ UNCHANGED stderr
    /\ UNCHANGED <<g_stop, wifiCh, seconds, fmt, mtu, freq, dev, stream, corrFailed,
                   calls, elapsed, totalSamps, readLog, ret, wrote, loopExit,
                   fState, fElems, fTail, fBuf, sidecar>>

(* auto results = SoapySDR::Device::enumerate(devArgs); *)
Enumerate ==
    /\ pc = "enumerate"
    /\ \E found \in BOOLEAN :
         IF found
         THEN /\ stderr' = stderr \cup {"Found"}
              /\ pc' = "make"
              /\ UNCHANGED exitCode
         ELSE /\ stderr' = stderr \cup {"NoDevices"}
              /\ pc' = "done"
              /\ exitCode' = "1"
    /\ calls' = Append(calls, "enumerate")
    /\ UNCHANGED <<g_stop, wifiCh, seconds, fmt, mtu, freq, dev, stream, corrFailed,
                   elapsed, totalSamps, readLog, ret, wrote, loopExit,
                   fState, fElems, fTail, fBuf, sidecar>>

(* auto dev = unique_ptr<Device>(Device::make(devArgs)); if (!dev) return 1; *)
Make ==
    /\ pc = "make"
    /\ \E ok \in BOOLEAN :
         IF ok
         THEN /\ dev' = "made"
              /\ pc' = "chan"
              /\ UNCHANGED <<stderr, exitCode>>
         ELSE /\ dev' = "none"
              /\ stderr' = stderr \cup {"MakeFailed"}
              /\ pc' = "done"
              /\ exitCode' = "1"
    /\ calls' = Append(calls, "make")
    /\ UNCHANGED <<g_stop, wifiCh, seconds, fmt, mtu, freq, stream, corrFailed,
                   elapsed, totalSamps, readLog, ret, wrote, loopExit,
                   fState, fElems, fTail, fBuf, sidecar>>

(* const auto freq = wifi2g_ch_to_hz(wifiCh); *)
MapChannel ==
    /\ pc = "chan"
    /\ IF ChanThrows(wifiCh)
       THEN /\ Uncaught("wifi2g_ch_to_hz")
            /\ UNCHANGED freq
       ELSE /\ freq' = wifi2g_ch_to_hz(wifiCh)
            /\ calls' = Append(calls, "wifi2g_ch_to_hz")
            /\ pc' = "setSampleRate"
            /\ UNCHANGED <<dev, exitCode>>
    /\ UNCHANGED <<g_stop, wifiCh, seconds, fmt, mtu, stream, corrFailed,
                   elapsed, totalSamps, readLog, ret, wrote, loopExit,
                   fState, fElems, fTail, fBuf, sidecar, stderr>>

(* dev->setSampleRate / setBandwidth / setFrequency: a throw is not caught *)
Setter(here, next) ==
    /\ pc = here
    /\ \E ok \in BOOLEAN :
         IF ok
         THEN /\ calls' = Append(calls, here)
              /\ pc' = next
              /\ UNCHANGED <<dev, exitCode>>
         ELSE Uncaught(here)
    /\ UNCHANGED <<g_stop, wifiCh, seconds, fmt, mtu, freq, stream, corrFailed,
                   elapsed, totalSamps, readLog, ret, wrote, loopExit,
                   fState, fElems, fTail, fBuf, sidecar, stderr>>

SetSampleRate == Setter("setSampleRate", "setBandwidth")

SetBandwidth == Setter("setBandwidth", "setFrequency")

SetFrequency == Setter("setFrequency", "setDCOffsetMode")

(* dev->setX(...) without the try / catch *)
BestEffortUncaught(here, next) ==
    /\ pc = here
    /\ \E ok \in BOOLEAN :
         IF ok
         THEN /\ calls' = Append(calls, here)
              /\ pc' = next
              /\ UNCHANGED <<dev, exitCode>>
         ELSE Uncaught(here)
    /\ UNCHANGED <<g_stop, wifiCh, seconds, fmt, mtu, freq, stream, corrFailed,
                   elapsed, totalSamps, readLog, ret, wrote, loopExit,
                   fState, fElems, fTail, fBuf, sidecar, stderr>>

(* try { dev->setX(...); } catch(...) {} *)
BestEffort(here, next) ==
    /\ pc = here
    /\ \E ok \in BOOLEAN :
         corrFailed' = IF ok THEN corrFailed ELSE corrFailed \cup {here}
    /\ calls' = Append(calls, here)
    /\ pc' = next
    /\ UNCHANGED <<g_stop, wifiCh, seconds, fmt, mtu, freq, dev, stream,
                   elapsed, totalSamps, readLog, ret, wrote, loopExit,
                   fState, fElems, fTail, fBuf, sidecar, stderr, exitCode>>

SetDCOffsetMode == BestEffort("setDCOffsetMode", "setIQBalance")

SetIQBalance == BestEffort("setIQBalance", "setGain")

SetGain == BestEffort("setGain", "setupStream")

(* rxStream = dev->setupStream(SOAPY_SDR_RX, fmt); if (!rxStream) return 1; *)
SetupStream ==
    /\ pc = "setupStream"
    /\ \E ok \in BOOLEAN :
         IF ok
         THEN /\ stream' = "setup"
              /\ calls' = Append(calls, "setupStream")
              /\ pc' = "activateStream"
              /\ UNCHANGED <<dev, stderr, exitCode>>
         ELSE /\ stderr' = stderr \cup {"setupStreamFailed"}
              /\ dev' = DevAfterReturn(dev)
              /\ calls' = CallsAfterReturn(Append(calls, "setupStream"), dev)
              /\ pc' = "done"
              /\ exitCode' = "1"
              /\ UNCHANGED stream
    /\ UNCHANGED <<g_stop, wifiCh, seconds, fmt, mtu, freq, corrFailed,
                   elapsed, totalSamps, readLog, ret, wrote, loopExit,
                   fState, fElems, fTail, fBuf, sidecar>>

(* dev->activateStream(rxStream, 0, 0, 0); *)
ActivateStream ==
    /\ pc = "activateStream"
    /\ stream' = "active"
    /\ calls' = Append(calls, "activateStream")
    /\ pc' = "fopen"
    /\ UNCHANGED <<g_stop, wifiCh, seconds, fmt, mtu, freq, dev, corrFailed,
                   elapsed, totalSamps, readLog, ret, wrote, loopExit,
                   fState, fElems, fTail, fBuf, sidecar, stderr, exitCode>>

(* f = fopen(binPath, "wb"); if (!f) return 1; t0 = now; totalSamps = 0.   *)
(* The program keeps no trace of a swallowed correction failure; the note  *)
(* corrFailed is kept while the session is being set up and dropped when   *)
(* the loop is entered.                                                    *)
OpenOutput ==
    /\ pc = "fopen"
    /\ \E ok \in BOOLEAN :
         IF ok
         THEN /\ fState' = "open"
              /\ fElems' = <<>>
              /\ fTail' = 0
              /\ fBuf' = <<>>
              /\ corrFailed' = {}
              /\ elapsed' = 0
              /\ totalSamps' = 0
              /\ stderr' = stderr \cup {"Capturing"}
              /\ calls' = Append(calls, "fopen")
              /\ pc' = "loopTop"
              /\ UNCHANGED <<dev, exitCode>>
         ELSE /\ stderr' = stderr \cup {"FailedToOpenOutput"}
              /\ dev' = DevAfterReturn(dev)
              /\ calls' = CallsAfterReturn(Append(calls, "fopen"), dev)
              /\ pc' = "done"
              /\ exitCode' = "1"
              /\ UNCHANGED <<fState, fElems, fTail, fBuf, corrFailed, elapsed,
                             totalSamps>>
    /\ UNCHANGED <<g_stop, wifiCh, seconds, fmt, mtu, freq, stream,
                   readLog, ret, wrote, loopExit, sidecar>>

(* while (!g_stop.load()) *)
LoopCondIgnoresStop(stop) == TRUE

LoopCond(stop) == ~stop

(* if (elapsed >= seconds) break; *)
DurationStrictlyExceeded(e, s) == e > s

DurationNeverReached(e, s) == FALSE

DurationReached(e, s) == e >= s

(* The loop head: the cancellation flag first, then the duration. *)
LoopTop ==
    /\ pc = "loopTop"
    /\ IF ~LoopCond(g_stop)
       THEN /\ loopExit' = "stop"
            /\ pc' = "deactivateStream"
       ELSE IF DurationReached(elapsed, seconds)
       THEN /\ loopExit' = "duration"
            /\ pc' = "deactivateStream"
       ELSE /\ pc' = "read"
            /\ UNCHANGED loopExit
    /\ UNCHANGED <<g_stop, wifiCh, seconds, fmt, mtu, freq, dev, stream, corrFailed,
                   calls, elapsed, totalSamps, readLog, ret, wrote,
                   fState, fElems, fTail, fBuf, sidecar, stderr, exitCode>>

(* The three tests on ret, in the order the loop makes them. *)
ClassifyOverflowAsError(r) ==
    IF r = SOAPY_SDR_TIMEOUT THEN "timeout"
    ELSE IF r < 0 THEN "fatal"
    ELSE "success"

Classify(r) ==
    IF r = SOAPY_SDR_TIMEOUT THEN "timeout"
    ELSE IF r = SOAPY_SDR_OVERFLOW THEN "overflow"
    ELSE IF r < 0 THEN "fatal"
    ELSE "success"

(* totalSamps += static_cast<size_t>(ret); *)
Accumulate(total, r) == total + r

(* The loop body with totalSamps += ret placed before the short-write test *)
ReadStreamCountsBeforeCheck ==
    /\ pc = "read"
    /\ Len(readLog) < MaxReads
    /\ \E r \in RetCodes(mtu) :
         /\ ret' = r
         /\ readLog' = Append(readLog, r)
         /\ IF Classify(r) = "timeout"
            THEN /\ pc' = "loopTop"
                 /\ UNCHANGED <<totalSamps, wrote, loopExit, fElems, fTail, fBuf, stderr>>
            ELSE IF Classify(r) = "overflow"
            THEN /\ stderr' = stderr \cup {"warnOverflow"}
                 /\ pc' = "loopTop"
                 /\ UNCHANGED <<totalSamps, wrote, loopExit, fElems, fTail, fBuf>>
            ELSE IF Classify(r) = "fatal"
            THEN /\ stderr' = stderr \cup {"errReadStream"}
                 /\ loopExit' = "fatal"
                 /\ pc' = "deactivateStream"
                 /\ UNCHANGED <<totalSamps, wrote, fElems, fTail, fBuf>>
            ELSE \E w \in 0..r :
                   /\ wrote' = w
                   /\ \E p \in (IF w # r
                                THEN FlushPoints(fBuf \o Repeat(Len(readLog) + 1, w),
                                                 fTail, TRUE, fmt)
                                ELSE CleanFlushPoints(fBuf \o Repeat(Len(readLog) + 1, w))) :
                        /\ fElems' = fElems \o Flushed(fBuf \o Repeat(Len(readLog) + 1, w), p[1])
                        /\ fBuf' = Pending(fBuf \o Repeat(Len(readLog) + 1, w), p[1])
                        /\ fTail' = p[2]
                   /\ IF w # r
                      THEN /\ stderr' = stderr \cup {"errShortWrite"}
                           /\ loopExit' = "short"
                           /\ pc' = "deactivateStream"
                           /\ totalSamps' = Accumulate(totalSamps, r)
                      ELSE /\ totalSamps' = Accumulate(totalSamps, r)
                           /\ pc' = "loopTop"
                           /\ UNCHANGED <<stderr, loopExit>>
    /\ UNCHANGED <<g_stop, wifiCh, seconds, fmt, mtu, freq, dev, stream, corrFailed,
                   calls, elapsed, fState, sidecar, exitCode>>

(* int ret = dev->readStream(...); classification; fwrite; accumulation *)
ReadStream ==
    /\ pc = "read"
    /\ Len(readLog) < MaxReads
    /\ \E r \in RetCodes(mtu) :
         /\ ret' = r
         /\ readLog' = Append(readLog, r)
         /\ IF Classify(r) = "timeout"
            THEN /\ pc' = "loopTop"
                 /\ UNCHANGED <<totalSamps, wrote, loopExit, fElems, fTail, fBuf, stderr>>
            ELSE IF Classify(r) = "overflow"
            THEN /\ stderr' = stderr \cup {"warnOverflow"}
                 /\ pc' = "loopTop"
                 /\ UNCHANGED <<totalSamps, wrote, loopExit, fElems, fTail, fBuf>>
            ELSE IF Classify(r) = "fatal"
            THEN /\ stderr' = stderr \cup {"errReadStream"}
                 /\ loopExit' = "fatal"
                 /\ pc' = "deactivateStream"
                 /\ UNCHANGED <<totalSamps, wrote, fElems, fTail, fBuf>>
            ELSE \E w \in 0..r :
                   /\ wrote' = w
                   /\ \E p \in (IF w # r
                                THEN FlushPoints(fBuf \o Repeat(Len(readLog) + 1, w),
                                                 fTail, TRUE, fmt)
                                ELSE CleanFlushPoints(fBuf \o Repeat(Len(readLog) + 1, w))) :
                        /\ fElems' = fElems \o Flushed(fBuf \o Repeat(Len(readLog) + 1, w), p[1])
                        /\ fBuf' = Pending(fBuf \o Repeat(Len(readLog) + 1, w), p[1])
                        /\ fTail' = p[2]
                   /\ IF w # r
                      THEN /\ stderr' = stderr \cup {"errShortWrite"}
                           /\ loopExit' = "short"
                           /\ pc' = "deactivateStream"
                           /\ UNCHANGED totalSamps
                      ELSE /\ totalSamps' = Accumulate(totalSamps, r)
                           /\ pc' = "loopTop"
                           /\ UNCHANGED <<stderr, loopExit>>
    /\ UNCHANGED <<g_stop, wifiCh, seconds, fmt, mtu, freq, dev, stream, corrFailed,
                   calls, elapsed, fState, sidecar, exitCode>>

(* Teardown that is reached only when the loop ended normally. *)
DeactivateStreamOnlyOnNormalExit ==
    /\ pc = "deactivateStream"
    /\ IF loopExit \in {"stop", "duration"}
       THEN /\ stream' = "inactive"
            /\ calls' = Append(calls, "deactivateStream")
            /\ pc' = "closeStream"
       ELSE /\ pc' = "unmake"
            /\ UNCHANGED <<stream, calls>>
    /\ UNCHANGED <<g_stop, wifiCh, seconds, fmt, mtu, freq, dev, corrFailed,
                   elapsed, totalSamps, readLog, ret, wrote, loopExit,
                   fState, fElems, fTail, fBuf, sidecar, stderr, exitCode>>

(* Teardown that goes straight to closeStream. *)
DeactivateStreamSkipped ==
    /\ pc = "deactivateStream"
    /\ pc' = "closeStream"
    /\ UNCHANGED <<g_stop, wifiCh, seconds, fmt, mtu, freq, dev, stream, corrFailed,
                   calls, elapsed, totalSamps, readLog, ret, wrote, loopExit,
                   fState, fElems, fTail, fBuf, sidecar, stderr, exitCode>>

(* dev->deactivateStream(rxStream); *)
DeactivateStream ==
    /\ pc = "deactivateStream"
    /\ stream' = "inactive"
    /\ calls' = Append(calls, "deactivateStream")
    /\ pc' = "closeStream"
    /\ UNCHANGED <<g_stop, wifiCh, seconds, fmt, mtu, freq, dev, corrFailed,
                   elapsed, totalSamps, readLog, ret, wrote, loopExit,
                   fState, fElems, fTail, fBuf, sidecar, stderr, exitCode>>

(* dev->closeStream(rxStream); *)
CloseStream ==
    /\ pc = "closeStream"
    /\ stream' = "closed"
    /\ calls' = Append(calls, "closeStream")
    /\ pc' = "unmake"
    /\ UNCHANGED <<g_stop, wifiCh, seconds, fmt, mtu, freq, dev, corrFailed,
                   elapsed, totalSamps, readLog, ret, wrote, loopExit,
                   fState, fElems, fTail, fBuf, sidecar, stderr, exitCode>>

(* Teardown that forgets std::fclose(f). *)
UnmakeThenSidecar ==
    /\ pc = "unmake"
    /\ dev' = "unmade"
    /\ calls' = Append(calls, "unmake")
    /\ pc' = "sidecar"
    /\ UNCHANGED <<g_stop, wifiCh, seconds, fmt, mtu, freq, stream, corrFailed,
                   elapsed, totalSamps, readLog, ret, wrote, loopExit,
                   fState, fElems, fTail, fBuf, sidecar, stderr, exitCode>>

(* SoapySDR::Device::unmake(dev.release()); *)
Unmake ==
    /\ pc = "unmake"
    /\ dev' = "unmade"
    /\ calls' = Append(calls, "unmake")
    /\ pc' = "fclose"
    /\ UNCHANGED <<g_stop, wifiCh, seconds, fmt, mtu, freq, stream, corrFailed,
                   elapsed, totalSamps, readLog, ret, wrote, loopExit,
                   fState, fElems, fTail, fBuf, sidecar, stderr, exitCode>>

(* std::fclose(f); -- the result is not looked at.  fclose writes what is  *)
(* still buffered; the write can fail, in whole or part-way, and what was  *)
(* not written is dropped with the buffer.                                 *)
CloseOutput ==
    /\ pc = "fclose"
    /\ fState' = "closed"
    /\ \E p \in FlushPoints(fBuf, fTail, loopExit = "short", fmt) :
         /\ fElems' = fElems \o Flushed(fBuf, p[1])
         /\ fTail' = p[2]
    /\ fBuf' = <<>>
    /\ calls' = Append(calls, "fclose")
    /\ pc' = "sidecar"
    /\ UNCHANGED <<g_stop, wifiCh, seconds, fmt, mtu, freq, dev, stream, corrFailed,
                   elapsed, totalSamps, readLog, ret, wrote, loopExit,
                   sidecar, stderr, exitCode>>

(* write_sidecar_json(jsonPath, ..., freq, sampRate, totalSamps, fmt, ts):  *)
(* the ofstream may fail to open, or fail part-way; nothing is checked.    *)
write_sidecar_json(nsamps, centerHz, outcome) ==
    [calls     |-> sidecar.calls + 1,
     nsamps    |-> nsamps,
     file      |-> outcome,
     samples   |-> IF outcome = "written" THEN nsamps ELSE 0,
     center_hz |-> IF outcome = "written" THEN centerHz ELSE 0]

WriteSidecar ==
    /\ pc = "sidecar"
    /\ \E outcome \in {"written", "absent", "partial"} :
         sidecar' = write_sidecar_json(totalSamps, freq, outcome)
    /\ calls' = Append(calls, "write_sidecar_json")
    /\ pc' = "finish"
    /\ UNCHANGED <<g_stop, wifiCh, seconds, fmt, mtu, freq, dev, stream, corrFailed,
                   elapsed, totalSamps, readLog, ret, wrote, loopExit,
                   fState, fElems, fTail, fBuf, stderr, exitCode>>

(* return 0; -- whatever ended the loop and whatever the sidecar did *)
ExitStatusFailsOnLoopError(le, sc) == IF le \in {"fatal", "short"} THEN "1" ELSE "0"

ExitStatusFailsOnSidecar(le, sc) == IF sc.file = "written" THEN "0" ELSE "1"

ExitStatus(le, sc) == "0"

(* std::cerr << "Done. ..." << "Sidecar: ..."; return 0; *)
Finish ==
    /\ pc = "finish"
    /\ stderr' = stderr \cup {"Done", "Sidecar"}
    /\ dev' = DevAfterReturn(dev)
    /\ calls' = CallsAfterReturn(calls, dev)
    /\ exitCode' = ExitStatus(loopExit, sidecar)
    /\ pc' = "done"
    /\ UNCHANGED <<g_stop, wifiCh, seconds, fmt, mtu, freq, stream, corrFailed,
                   elapsed, totalSamps, readLog, ret, wrote, loopExit,
                   fState, fElems, fTail, fBuf, sidecar>>

Next ==
    \/ sigint_handler
    \/ Tick
    \/ ParseArgs
    \/ Enumerate
    \/ Make
    \/ MapChannel
    \/ SetSampleRate
    \/ SetBandwidth
    \/ SetFrequency
    \/ SetDCOffsetMode
    \/ SetIQBalance
    \/ SetGain
    \/ SetupStream
    \/ ActivateStream
    \/ OpenOutput
    \/ LoopTop
    \/ ReadStream
    \/ DeactivateStream
    \/ CloseStream
    \/ Unmake
    \/ CloseOutput
    \/ WriteSidecar
    \/ Finish

Spec == Init /\ [][Next]_vars

----------------------------------------------------------------------------
TypeOK ==
    /\ pc \in {"parse", "enumerate", "make", "chan", "setSampleRate", "setBandwidth",
               "setFrequency", "setDCOffsetMode", "setIQBalance", "setGain",
               "setupStream", "activateStream", "fopen", "loopTop", "read",
               "deactivateStream", "closeStream", "unmake", "fclose",
               "sidecar", "finish", "done"}
    /\ g_stop \in BOOLEAN
    /\ dev \in {"none", "made", "unmade", "deleted"}
    /\ stream \in {"none", "setup", "active", "inactive", "closed"}
    /\ fState \in {"none", "open", "closed"}
    /\ exitCode \in {"none", "0", "1", "2", "abort"}
    /\ fTail \in TailBytes(fmt)
    /\ loopExit \in {"none", "stop", "duration", "fatal", "short"}
    /\ totalSamps \in Nat
    /\ elapsed \in 0..seconds
----------------------------------------------------------------------------
(* Vocabulary of the properties *)

(* The calls main() has made when it enters the while loop *)
LoopPrefix ==
    <<"enumerate", "make", "wifi2g_ch_to_hz", "setSampleRate", "setBandwidth",
      "setFrequency", "setDCOffsetMode", "setIQBalance", "setGain",
      "setupStream", "activateStream", "fopen">>

Teardown == <<"deactivateStream", "closeStream", "unmake", "fclose">>

StreamTeardown == <<"deactivateStream", "closeStream", "unmake">>

IsPrefix(s, t) == Len(s) <= Len(t) /\ SubSeq(t, 1, Len(s)) = s

(* The calls made since the loop was entered *)
AfterLoop == SubSeq(calls, Len(LoopPrefix) + 1, Len(calls))

EnteredLoop == fState # "none" /\ IsPrefix(LoopPrefix, calls)

IsFatalCode(r) == r < 0 /\ r # SOAPY_SDR_TIMEOUT /\ r # SOAPY_SDR_OVERFLOW

(* The elements n reads deliver: read i contributes log[i] elements when   *)
(* log[i] is a sample count, none when it is a status code.                *)
RECURSIVE Delivered(_, _)
Delivered(log, n) ==
    IF n = 0 THEN <<>>
    ELSE Delivered(log, n - 1) \o (IF log[n] >= 0 THEN Repeat(n, log[n]) ELSE <<>>)

RECURSIVE SumCounts(_, _)
SumCounts(log, n) ==
    IF n = 0 THEN 0
    ELSE SumCounts(log, n - 1) + (IF log[n] >= 0 THEN log[n] ELSE 0)

(* The reads that returned a count and were written in full: all the      *)
(* counts of readLog, but for the last one when the loop ended on a short  *)
(* write.                                                                  *)
FullyWritten == IF loopExit = "short" THEN Len(readLog) - 1 ELSE Len(readLog)

----------------------------------------------------------------------------
(* C1: once the loop has been left, for whatever reason, the calls that    *)
(* follow are deactivateStream, closeStream, unmake, fclose, each once and *)
(* in this order; the sidecar writer runs and the process exits only after *)
(* all four; while the loop runs none of them has been made.               *)
C1_TeardownOrder ==
    /\ (EnteredLoop /\ loopExit = "none") => AfterLoop = <<>>
    /\ loopExit # "none" =>
         /\ EnteredLoop
         /\ IsPrefix(AfterLoop, Teardown \o <<"write_sidecar_json">>)
         /\ (sidecar.calls > 0 \/ pc \in {"sidecar", "finish", "done"}
               => IsPrefix(Teardown, AfterLoop))
         /\ (pc = "done" => AfterLoop = Teardown \o <<"write_sidecar_json">>)
         /\ (stream = "closed" /\ dev = "unmade" /\ fState = "closed"
               <=> IsPrefix(Teardown, AfterLoop))

C1_Witness ==
    /\ pc = "done"
    /\ loopExit = "short"
    /\ AfterLoop = Teardown \o <<"write_sidecar_json">>

(* C2 (as claimed): when fopen of the binary file fails, the stream has    *)
(* been deactivated and closed and the device released by the time the     *)
(* process exits with code 1.                                              *)
C2_OpenFailureTearsDown ==
    (pc = "done" /\ "FailedToOpenOutput" \in stderr) =>
        /\ exitCode = "1"
        /\ stream = "closed"
        /\ \E i, j \in 1..Len(calls) :
             i < j /\ calls[i] = "deactivateStream" /\ calls[j] = "closeStream"
        /\ dev \in {"unmade", "deleted"}

(* C3 (as claimed): from fopen on, the number of whole elements of the    *)
(* binary file equals totalSamps: while the file is open, the elements in  *)
(* the file together with those fwrite accepted and still buffers; once it *)
(* is closed, the elements in the file.                                    *)
C3_FileMatchesCount ==
    /\ fState = "open" => Len(fElems) + Len(fBuf) = totalSamps
    /\ fState = "closed" => Len(fElems) = totalSamps

(* C4: a read that returns TIMEOUT or OVERFLOW changes neither totalSamps  *)
(* nor the binary file and leaves main() at the loop head, the loop not    *)
(* left.                                                                   *)
C4_TransientReadFrame ==
    [][(readLog' # readLog /\ ret' \in {SOAPY_SDR_TIMEOUT, SOAPY_SDR_OVERFLOW}) =>
          /\ totalSamps' = totalSamps
          /\ fElems' = fElems
          /\ fTail' = fTail
          /\ fBuf' = fBuf
          /\ fState' = fState
          /\ loopExit' = "none"
          /\ pc' = "loopTop"]_vars

C4_Witness ==
    /\ Len(readLog) = 2
    /\ readLog[1] = SOAPY_SDR_OVERFLOW
    /\ readLog[2] > 0
    /\ totalSamps = readLog[2]
    /\ Len(fElems) + Len(fBuf) = readLog[2]
    /\ "warnOverflow" \in stderr

(* C5 (as claimed): when the loop ended on a fatal read code, that read   *)
(* is the last one issued, every earlier read was not fatal, the binary    *)
(* file holds exactly the elements of the reads that returned a count      *)
(* (counting, while it is open, what fwrite accepted and still buffers),   *)
(* the sidecar writer is given that count, and the process exits with      *)
(* code 0.                                                                 *)
C5_FatalReadKeepsData ==
    loopExit = "fatal" =>
        /\ pc \notin {"loopTop", "read"}
        /\ Len(readLog) >= 1
        /\ IsFatalCode(readLog[Len(readLog)])
        /\ \A i \in 1..(Len(readLog) - 1) : ~IsFatalCode(readLog[i])
        /\ fState = "open" => fElems \o fBuf = Delivered(readLog, Len(readLog))
        /\ fState = "closed" => fElems = Delivered(readLog, Len(readLog))
        /\ fTail = 0
        /\ totalSamps = SumCounts(readLog, Len(readLog))
        /\ (sidecar.calls > 0 => sidecar.nsamps = totalSamps)
        /\ (sidecar.file = "written" => sidecar.samples = totalSamps)
        /\ (pc = "done" => sidecar.calls = 1 /\ exitCode = "0")

(* C6 (as claimed): the count handed to the sidecar writer is the sum of  *)
(* the counts of the reads that returned a count and were written in full; *)
(* when the duration check ended the loop the binary file holds exactly    *)
(* those elements (counting, while it is open, what is still buffered), so *)
(* N reads of k samples give N*k elements and a sidecar reporting N*k.     *)
C6_SidecarCountIsSum ==
    /\ sidecar.calls > 0 => sidecar.nsamps = SumCounts(readLog, FullyWritten)
    /\ sidecar.file = "written" => sidecar.samples = SumCounts(readLog, FullyWritten)
    /\ loopExit = "duration" =>
         /\ fState = "open" => fElems \o fBuf = Delivered(readLog, Len(readLog))
         /\ fState = "closed" => fElems = Delivered(readLog, Len(readLog))
         /\ fTail = 0
         /\ \A k \in 0..MaxMTU :
              (\A i \in 1..Len(readLog) : readLog[i] = k)
                 => /\ fState = "closed" => Len(fElems) = Len(readLog) * k
                    /\ (sidecar.calls > 0 => sidecar.nsamps = Len(readLog) * k)

(* C7: with the flag set, the loop head never goes on to a read; a read    *)
(* that completes while the flag is set is one that was already past the   *)
(* loop head and is followed by the loop head or by teardown; and a run    *)
(* that entered the loop has deactivated and closed the stream and         *)
(* released the device when the process exits.                             *)
C7_CancelStopsReads ==
    /\ [][(g_stop /\ pc = "loopTop" /\ pc' # pc) =>
             (pc' = "deactivateStream" /\ readLog' = readLog)]_vars
    /\ [][(g_stop /\ readLog' # readLog) =>
             (pc = "read" /\ pc' \in {"loopTop", "deactivateStream"}
                /\ Len(readLog') = Len(readLog) + 1)]_vars
    /\ []((pc = "done" /\ loopExit = "stop") =>
             (IsPrefix(StreamTeardown, AfterLoop)
                /\ stream = "closed" /\ dev = "unmade"))

C7_Witness ==
    /\ pc = "done"
    /\ loopExit = "stop"
    /\ Len(readLog) = 1
    /\ seconds > elapsed
    /\ stream = "closed"
    /\ dev = "unmade"

(* C8: with a duration of 0 no read is ever issued; the binary file is     *)
(* created and closed empty, the sidecar writer is given 0, teardown runs  *)
(* and the exit code is 0.                                                 *)
C8_ZeroDuration ==
    seconds = 0 =>
        /\ readLog = <<>>
        /\ pc # "read"
        /\ fElems = <<>>
        /\ fTail = 0
        /\ fBuf = <<>>
        /\ totalSamps = 0
        /\ (sidecar.calls > 0 => sidecar.nsamps = 0)
        /\ (sidecar.file = "written" => sidecar.samples = 0)
        /\ (pc = "done" /\ EnteredLoop =>
              /\ fState = "closed"
              /\ AfterLoop = Teardown \o <<"write_sidecar_json">>
              /\ sidecar.calls = 1
              /\ exitCode = "0")

C8_Witness ==
    /\ seconds = 0
    /\ ~g_stop
    /\ pc = "done"
    /\ loopExit = "duration"
    /\ fState = "closed"
    /\ sidecar.file = "written"
    /\ exitCode = "0"

(* C9: the sidecar writer is invoked at most once, only with the binary    *)
(* file closed and with the final totalSamps; a finished run has invoked   *)
(* it exactly once if it opened the binary file and never otherwise.       *)
C9_SidecarOnceAfterClose ==
    /\ sidecar.calls <= 1
    /\ sidecar.calls = 1 =>
         /\ fState = "closed"
         /\ sidecar.nsamps = totalSamps
         /\ \E i, j \in 1..Len(calls) :
              i < j /\ calls[i] = "fclose" /\ calls[j] = "write_sidecar_json"
    /\ pc = "done" => (sidecar.calls = 1 <=> fState # "none")
    /\ fState = "none" => sidecar = NoSidecar

C9_Witness ==
    /\ pc = "done"
    /\ sidecar.calls = 1
    /\ fState = "closed"
    /\ totalSamps > 0
    /\ sidecar.nsamps = totalSamps

(* C10: the sidecar writer's step leaves the closed binary file as it is,  *)
(* whatever its outcome, and a run whose sidecar was not written still     *)
(* exits with code 0.                                                      *)
C10_SidecarFailureHarmless ==
    /\ [][(sidecar' # sidecar) =>
             (fState = "closed" /\ fState' = fState
                /\ fElems' = fElems /\ fTail' = fTail /\ fBuf' = fBuf)]_vars
    /\ []((pc = "done" /\ sidecar.calls = 1 /\ sidecar.file # "written") =>
             (exitCode = "0" /\ fState = "closed"))

C10_Witness ==
    /\ pc = "done"
    /\ sidecar.calls = 1
    /\ sidecar.file = "absent"
    /\ loopExit = "duration"
    /\ Len(fElems) > 0
    /\ exitCode = "0"

(* C11 (as claimed): a run whose sidecar could not be opened has printed a *)
(* diagnostic saying so.  write_sidecar_json never tests its stream and    *)
(* main() prints the same "Done" / "Sidecar:" lines whatever happened, so  *)
(* no statement of the program emits one.                                  *)
SidecarFailureReported == "FailedToOpenSidecar" \in stderr

C11_SidecarOpenFailureReported ==
    (pc = "done" /\ sidecar.calls = 1 /\ sidecar.file = "absent")
        => SidecarFailureReported

(* The last call of the run, the unique_ptr destructor's delete set aside  *)
LastCall ==
    IF calls = <<>> THEN "none"
    ELSE IF calls[Len(calls)] = "delete" THEN calls[Len(calls) - 1]
    ELSE calls[Len(calls)]

(* C12: a finished run has exit code 1 exactly when it ended at an empty   *)
(* enumeration, a failed Device::make, a failed setupStream or a failed    *)
(* fopen of the binary file; a run that entered the loop ends with code 0  *)
(* whatever ended the loop.                                                *)
C12_ExitCodes ==
    pc = "done" =>
        /\ exitCode = "1" <=>
              /\ fState = "none"
              /\ LastCall \in {"enumerate", "make", "setupStream", "fopen"}
        /\ exitCode = "1" <=>
              stderr \cap {"NoDevices", "MakeFailed", "setupStreamFailed",
                           "FailedToOpenOutput"} # {}
        /\ EnteredLoop =>
              /\ loopExit \in {"stop", "duration", "fatal", "short"}
              /\ exitCode = "0"
        /\ exitCode = "0" => (EnteredLoop \/ calls = <<>>)

C12_Witness ==
    /\ pc = "done"
    /\ loopExit = "fatal"
    /\ readLog = <<SOAPY_SDR_STREAM_ERROR>>
    /\ exitCode = "0"

(* The calls that release the device *)
Releases == {i \in 1..Len(calls) : calls[i] \in {"unmake", "delete"}}

(* C13 (as claimed): a finished run that constructed a device has released *)
(* it exactly once.                                                        *)
C13_DeviceReleasedOnce ==
    /\ Cardinality(Releases) <= 1
    /\ (pc = "done" /\ dev # "none") =>
          /\ dev \in {"unmade", "deleted"}
          /\ Cardinality(Releases) = 1

----------------------------------------------------------------------------
(* The channel mapper on its own: main() stands at line 124 with a device  *)
(* made, for every channel number the CLI can have produced in             *)
(* -ChanProbe..ChanProbe, and evaluates wifi2g_ch_to_hz(wifiCh).           *)
ChanProbe == 60

InitChan ==
    /\ pc = "chan"
    /\ g_stop = FALSE
    /\ wifiCh \in (0 - ChanProbe)..ChanProbe
    /\ seconds = 0
    /\ fmt = SOAPY_SDR_CF32
    /\ mtu = 1
    /\ freq = 0
    /\ dev = "made"
    /\ stream = "none"
    /\ corrFailed = {}
    /\ calls = <<"enumerate", "make">>
    /\ elapsed = 0
    /\ totalSamps = 0
    /\ readLog = <<>>
    /\ ret = 0
    /\ wrote = 0
    /\ loopExit = "none"
    /\ fState = "none"
    /\ fElems = <<>>
    /\ fTail = 0
    /\ fBuf = <<>>
    /\ sidecar = NoSidecar
    /\ stderr = {"Found"}
    /\ exitCode = "none"

NextChan == MapChannel

SpecChan == InitChan /\ [][NextChan]_vars

(* C14: once main() has evaluated the mapper, the frequency is             *)
(* 2412 MHz + 5 MHz * (c - 1) for c in 1..13 and 2484 MHz for c = 14 (in   *)
(* kHz here), and the run goes on; for every other c the mapper threw      *)
(* and no frequency was produced.                                          *)
C14_ChannelMapper ==
    pc # "chan" =>
        IF wifiCh \in 1..13
        THEN freq = 2412000 + 5000 * (wifiCh - 1) /\ pc = "setSampleRate"
                /\ exitCode = "none"
        ELSE IF wifiCh = 14
        THEN freq = 2484000 /\ pc = "setSampleRate" /\ exitCode = "none"
        ELSE freq = 0 /\ pc = "done" /\ exitCode = "abort"
                /\ calls[Len(calls)] \in {"wifi2g_ch_to_hz", "delete"}

C14_Witness ==
    /\ wifiCh = 11
    /\ freq = 2462000
    /\ pc = "setSampleRate"

----------------------------------------------------------------------------
(* C15: with a channel outside 1..14 the run never gets past line 124: no  *)
(* sample-rate, bandwidth, frequency or correction setter is called, no    *)
(* stream is set up, neither the binary file nor the sidecar is created,   *)
(* and main() is never at a later statement.                               *)
C15_BadChannelStopsEarly ==
    wifiCh \notin 1..14 =>
        /\ pc \in {"parse", "enumerate", "make", "chan", "done"}
        /\ \A i \in 1..Len(calls) :
              calls[i] \in {"enumerate", "make", "wifi2g_ch_to_hz", "delete"}
        /\ freq = 0
        /\ stream = "none"
        /\ fState = "none"
        /\ sidecar = NoSidecar
        /\ exitCode \in {"none", "0", "1", "2", "abort"}
        /\ (exitCode \in {"0", "2"} => calls = <<>>)

C15_Witness ==
    /\ wifiCh = 15
    /\ pc = "done"
    /\ exitCode = "abort"
    /\ LastCall = "wifi2g_ch_to_hz"

Corrections == {"setDCOffsetMode", "setIQBalance", "setGain"}

(* C16: a best-effort correction step always goes on to the next          *)
(* statement, whether the call threw or not, with the device and the exit  *)
(* status untouched; whatever set of corrections failed, stream setup,     *)
(* activation and fopen are reached with the calls of a run in which none  *)
(* failed, and the run enters the loop from there in the same way.         *)
C16_BestEffortNeverAborts ==
    /\ [][(pc \in Corrections /\ pc' # pc) =>
             /\ pc' = (IF pc = "setDCOffsetMode" THEN "setIQBalance"
                       ELSE IF pc = "setIQBalance" THEN "setGain"
                       ELSE "setupStream")
             /\ calls' = Append(calls, pc)
             /\ dev' = dev /\ dev = "made"
             /\ exitCode' = "none"]_vars
    /\ [](corrFailed \subseteq Corrections)
    /\ [](pc \in {"setupStream", "activateStream", "fopen"} =>
             /\ IsPrefix(calls, LoopPrefix)
             /\ dev = "made"
             /\ exitCode = "none")
    /\ []((pc \in {"loopTop", "read"}) =>
             (stream = "active" /\ dev = "made" /\ calls = LoopPrefix))

C16_Witness ==
    /\ corrFailed = Corrections
    /\ pc = "fopen"
    /\ stream = "active"
    /\ calls = SubSeq(LoopPrefix, 1, Len(LoopPrefix) - 1)

(* The stream calls made so far, in order *)
StreamCalls ==
    SelectSeq(calls, LAMBDA c : c \in {"setupStream", "activateStream",
                                       "deactivateStream", "closeStream"})

(* C17: the stream calls made are an initial part of setupStream,          *)
(* activateStream, deactivateStream, closeStream (so each at most once, in *)
(* this order, and none after closeStream), and every readStream is issued *)
(* with the stream active.                                                 *)
C17_StreamLifecycle ==
    /\ [](IsPrefix(StreamCalls,
                   <<"setupStream", "activateStream", "deactivateStream", "closeStream">>))
    /\ [](pc = "read" => stream = "active")
    /\ [][(readLog' # readLog) => (stream = "active" /\ stream' = "active")]_vars
    /\ [](stream = "active" <=>
             (Len(StreamCalls) = 2 /\ StreamCalls[2] = "activateStream"))
    /\ [](stream = "closed" <=> Len(StreamCalls) = 4)

C17_Witness ==
    /\ pc = "done"
    /\ Len(readLog) = 2
    /\ stream = "closed"
    /\ Len(StreamCalls) = 4

----------------------------------------------------------------------------
(* C18: when the loop ended on a short write, the read that was cut short  *)
(* is the last read issued, its count has not been added to totalSamps,    *)
(* and the run goes through the full teardown and the sidecar writer to    *)
(* exit code 0.                                                            *)
C18_ShortWriteEndsLoop ==
    loopExit = "short" =>
        /\ pc \notin {"loopTop", "read"}
        /\ Len(readLog) >= 1
        /\ readLog[Len(readLog)] = ret
        /\ ret >= 1
        /\ wrote < ret
        /\ totalSamps = SumCounts(readLog, Len(readLog) - 1)
        /\ (fState = "open" => Len(fElems) + Len(fBuf) = totalSamps + wrote)
        /\ "errShortWrite" \in stderr
        /\ (sidecar.calls > 0 => sidecar.nsamps = totalSamps)
        /\ (pc = "done" =>
              /\ AfterLoop = Teardown \o <<"write_sidecar_json">>
              /\ sidecar.calls = 1
              /\ exitCode = "0")

C18_Witness ==
    /\ pc = "done"
    /\ loopExit = "short"
    /\ readLog = <<1, 2>>
    /\ wrote = 1
    /\ totalSamps = 1
    /\ sidecar.nsamps = 1
    /\ exitCode = "0"

(* C19: the flag starts false; a step that changes it sets it and changes  *)
(* nothing else; no step clears it; and with the flag set the loop head    *)
(* leaves the loop, so a signal delivered before the loop started lets no  *)
(* read be issued.                                                         *)
C19_StopFlagOneShot ==
    /\ ~g_stop
    /\ [][g_stop => g_stop']_vars
    /\ [][(g_stop' # g_stop) =>
             UNCHANGED <<pc, wifiCh, seconds, fmt, mtu, freq, dev, stream,
                         corrFailed, calls, elapsed, totalSamps, readLog, ret,
                         wrote, loopExit, fState, fElems, fTail, fBuf, sidecar,
                         stderr, exitCode>>]_vars
    /\ [][(g_stop /\ pc = "loopTop" /\ pc' # pc) =>
             (pc' = "deactivateStream" /\ loopExit' = "stop")]_vars
    /\ [][(g_stop /\ pc = "fopen" /\ pc' = "loopTop") => readLog' = <<>>]_vars
    /\ []((g_stop /\ loopExit = "stop" /\ readLog = <<>>) => totalSamps = 0)

C19_Witness ==
    /\ g_stop
    /\ pc = "done"
    /\ loopExit = "stop"
    /\ readLog = <<>>
    /\ seconds > 0
    /\ elapsed = 0

----------------------------------------------------------------------------
(* The session from the moment it enters the streaming loop (line 164),    *)
(* under the scheduling the platform provides: main() keeps executing      *)
(* (every call returns, a blocking read included) and the steady clock     *)
(* keeps advancing.  Signals may or may not arrive.                        *)
InitLoop ==
    /\ pc = "loopTop"
    /\ g_stop \in BOOLEAN
    /\ wifiCh = 14
    /\ seconds \in 0..MaxSecs
    /\ fmt \in Formats
    /\ mtu \in 1..MaxMTU
    /\ freq = wifi2g_ch_to_hz(wifiCh)
    /\ dev = "made"
    /\ stream = "active"
    /\ corrFailed = {}
    /\ calls = <<"enumerate", "make", "wifi2g_ch_to_hz", "setSampleRate",
                 "setBandwidth", "setFrequency", "setDCOffsetMode",
                 "setIQBalance", "setGain", "setupStream", "activateStream",
                 "fopen">>
    /\ elapsed = 0
    /\ totalSamps = 0
    /\ readLog = <<>>
    /\ ret = 0
    /\ wrote = 0
    /\ loopExit = "none"
    /\ fState = "open"
    /\ fElems = <<>>
    /\ fTail = 0
    /\ fBuf = <<>>
    /\ sidecar = NoSidecar
    /\ stderr = {"Found", "Capturing"}
    /\ exitCode = "none"

(* readStream calls beyond the MaxReads whose results are recorded: the    *)
(* source keeps returning TIMEOUT or OVERFLOW, which change nothing but    *)
(* ret and the overflow warning, for as long as the loop asks.             *)
ReadStreamIdle ==
    /\ pc = "read"
    /\ Len(readLog) = MaxReads
    /\ \E r \in {SOAPY_SDR_TIMEOUT, SOAPY_SDR_OVERFLOW} :
         /\ ret' = r
         /\ Classify(r) \in {"timeout", "overflow"}
         /\ stderr' = IF Classify(r) = "overflow"
                      THEN stderr \cup {"warnOverflow"} ELSE stderr
    /\ pc' = "loopTop"
    /\ UNCHANGED <<g_stop, wifiCh, seconds, fmt, mtu, freq, dev, stream, corrFailed,
                   calls, elapsed, totalSamps, readLog, wrote, loopExit,
                   fState, fElems, fTail, fBuf, sidecar, exitCode>>

MainStep ==
    \/ LoopTop
    \/ ReadStream
    \/ ReadStreamIdle
    \/ DeactivateStream
    \/ CloseStream
    \/ Unmake
    \/ CloseOutput
    \/ WriteSidecar
    \/ Finish

NextLoop ==
    \/ sigint_handler
    \/ Tick
    \/ LoopTop
    \/ ReadStream
    \/ ReadStreamIdle
    \/ DeactivateStream
    \/ CloseStream
    \/ Unmake
    \/ CloseOutput
    \/ WriteSidecar
    \/ Finish

SpecLive == InitLoop /\ [][NextLoop]_vars /\ WF_vars(MainStep) /\ WF_vars(Tick)

(* C20: a session that entered the loop eventually has run the whole       *)
(* teardown, invoked the sidecar writer and exited with code 0, whatever   *)
(* the reads return, never-ending timeouts and overflows included, and     *)
(* whether or not a signal ever arrives.                                   *)
C20_SessionTerminates ==
    <>(/\ pc = "done"
       /\ exitCode = "0"
       /\ AfterLoop = Teardown \o <<"write_sidecar_json">>
       /\ sidecar.calls = 1)

C20_Witness ==
    /\ pc = "done"
    /\ ~g_stop
    /\ loopExit = "duration"
    /\ seconds > 0
    /\ Len(readLog) = MaxReads
    /\ \A i \in 1..Len(readLog) : readLog[i] \in {SOAPY_SDR_TIMEOUT, SOAPY_SDR_OVERFLOW}
    /\ sidecar.calls = 1
====
